---- MODULE Spec2Model ----
(***************************************************************************)
(* Model of the Czech word translator (src/main.py) and of the first-word  *)
(* extractor (src/read_anki.py).                                           *)
(*                                                                         *)
(* Python strings are sequences of one-character strings, so that strip,   *)
(* split, lower, re.sub and f-string concatenation are computed rather     *)
(* than assumed.  JSON values are records [t, s]: t is the type tag and s  *)
(* the text of a string (or the str() of a number).                        *)
(*                                                                         *)
(* Four specifications share the module:                                   *)
(*   Spec          the pipeline of main(): open, submit, workers, collect  *)
(*   SpecTranslate translate_word applied to one service response          *)
(*   SpecReader    read_czech_words applied to one parsed input file       *)
(*   SpecExtract   read_anki.main applied to one command line and file     *)
(***************************************************************************)
EXTENDS Integers, Sequences, FiniteSets

VARIABLES
    \* ---- main.py: main() ----
    pcMain,          \* position of the orchestrating thread
    words,           \* list returned by read_czech_words
    max_workers,     \* args.workers
    submitted,       \* number of executor.submit calls made so far
    queue,           \* executor work queue (FIFO of submitted, unstarted words)
    running,         \* words whose translate_word call is executing in a worker
    results,         \* word -> outcome of its future (NoOutcome while unfinished)
    consumed,        \* words of the futures as_completed has yielded, in order
    cur,             \* loop variable: word of the future being processed
    completed_count, \* completed_count
    buf,             \* rows held in the file object's write buffer
    disk,            \* rows persisted in the output file
    writing,         \* threads currently inside csv_writer.writerow
    attempts,        \* word -> number of write_result_to_csv calls for it
    failures,        \* word -> number of those calls whose writerow raised
    \* ---- main.py: translate_word as a function ----
    tw,
    \* ---- main.py: read_czech_words as a function ----
    rd,
    \* ---- read_anki.py ----
    ex

pipeVars == <<pcMain, words, max_workers, submitted, queue, running, results,
              consumed, cur, completed_count, buf, disk, writing, attempts,
              failures>>
vars == <<pcMain, words, max_workers, submitted, queue, running, results,
          consumed, cur, completed_count, buf, disk, writing, attempts,
          failures, tw, rd, ex>>

-----------------------------------------------------------------------------
(* Bounds *)
MaxWords == 3
MaxWorkers == 2
BufRows == 2
MaxRows == 3
MaxLines == 3

-----------------------------------------------------------------------------
(* Python str helpers *)

Whitespace == {" ", "\t"}

IsSpace(c) == c \in Whitespace

\* str.strip(): drop leading and trailing whitespace
RECURSIVE LStrip(_)
LStrip(s) == IF s # <<>> /\ IsSpace(Head(s)) THEN LStrip(Tail(s)) ELSE s

RECURSIVE RStrip(_)
RStrip(s) ==
    IF s # <<>> /\ IsSpace(s[Len(s)]) THEN RStrip(SubSeq(s, 1, Len(s) - 1)) ELSE s

Strip(s) == RStrip(LStrip(s))

\* first element of str.split() on a string with no leading whitespace:
\* the characters up to the first whitespace character
RECURSIVE TakeToken(_)
TakeToken(s) ==
    IF s = <<>> \/ IsSpace(Head(s)) THEN <<>> ELSE <<Head(s)>> \o TakeToken(Tail(s))

\* str.lower() on the characters the model uses
LowerChar(c) ==
    CASE c = "N" -> "n"
      [] c = "O" -> "o"
      [] c = "U" -> "u"
      [] OTHER -> c

Lower(s) == [i \in 1..Len(s) |-> LowerChar(s[i])]

-----------------------------------------------------------------------------
(* JSON values as json.loads returns them *)

Missing == [s |-> <<>>, t |-> "missing"]   \* key absent from the object
None == [s |-> <<>>, t |-> "null"]         \* JSON null / Python None
JStr(s) == [s |-> s, t |-> "str"]
JNum(s) == [s |-> s, t |-> "num"]

IsStr(v) == v.t = "str"

\* Python truthiness of a value
Truthy(v) ==
    \/ v.t = "str" /\ v.s # <<>>
    \/ v.t = "num" /\ v.s # <<"0">>

\* str(v) as an f-string formats it
Format(v) ==
    CASE v.t = "str" -> v.s
      [] v.t = "num" -> v.s
      [] OTHER -> <<"N", "o", "n", "e">>

\* dict.get(key, default)
Get(obj, key, default) == IF obj[key] = Missing THEN default ELSE obj[key]

S_noun == <<"n", "o", "u", "n">>
S_error == <<"e", "r", "r", "o", "r">>
S_ErrorPrefix == <<"E", "r", "r", "o", "r", ":", " ">>

-----------------------------------------------------------------------------
(* main.py: translate_word *)

\* What the external service can do for one call.  kind is "raise" (the SDK
\* call raises), "nonjson" (the content is not JSON, or is None), "nonobject"
\* (JSON that is not an object) or "object"; the five fields are the values
\* of the object's keys, Missing when the key is absent.
Response(kind, word, word_type, gender, translation, example) ==
    [kind |-> kind, word |-> word, word_type |-> word_type, gender |-> gender,
     translation |-> translation, example |-> example]

RaiseResponse == Response("raise", Missing, Missing, Missing, Missing, Missing)
NonJsonResponse == Response("nonjson", Missing, Missing, Missing, Missing, Missing)
NonObjectResponse == Response("nonobject", Missing, Missing, Missing, Missing, Missing)

\* str(e) of the exception each failure raises
ErrorText(kind) ==
    CASE kind = "raise" -> <<"a", "p", "i">>
      [] kind = "nonjson" -> <<"j", "s", "o", "n">>
      [] OTHER -> <<"a", "t", "t", "r">>

EmptyResult ==
    [word |-> Missing, word_type |-> Missing, gender |-> Missing,
     translation |-> Missing, example |-> Missing]

NoOutcome == [raised |-> FALSE, result |-> EmptyResult]

\* the except branch of translate_word
ErrorResult(word, text) ==
    [word |-> JStr(word), word_type |-> JStr(S_error), gender |-> None,
     translation |-> JStr(S_ErrorPrefix \o text), example |-> JStr(<<>>)]

\* faulty variant: the gender is appended for every word type
WordTypeWithGender_AnyType(word_type, gender) ==
    IF Truthy(gender)
    THEN JStr(word_type.s \o <<" ", "(">> \o Format(gender) \o <<")">>)
    ELSE word_type

\* word_type after the noun-only gender suffix (word_type is a str here)
WordTypeWithGender(word_type, gender) ==
    IF Lower(word_type.s) = S_noun /\ Truthy(gender)
    THEN JStr(word_type.s \o <<" ", "(">> \o Format(gender) \o <<")">>)
    ELSE word_type

\* the try branch once json.loads has returned an object
NormalizedResult(word, resp) ==
    LET word_type == Get(resp, "word_type", JStr(<<>>))
        gender == Get(resp, "gender", None)
    IN  IF ~IsStr(word_type)
        THEN \* word_type.lower() raises AttributeError: the except branch
             ErrorResult(word, ErrorText("attr"))
        ELSE [word |-> Get(resp, "word", JStr(word)),
              word_type |-> WordTypeWithGender(word_type, gender),
              gender |-> gender,
              translation |-> Get(resp, "translation", JStr(<<>>)),
              example |-> Get(resp, "example", JStr(<<>>))]

\* translate_word(word, key): the outcome of the call.  Every exception of
\* the try block is caught, so the call never raises.
TranslateWord(word, resp) ==
    [raised |-> FALSE,
     result |-> IF resp.kind = "object"
                THEN NormalizedResult(word, resp)
                ELSE ErrorResult(word, ErrorText(resp.kind))]

\* ---- inputs of SpecTranslate ----
S_pes == <<"p", "e", "s">>
S_dog == <<"d", "o", "g">>
S_verb == <<"v", "e", "r", "b">>

TwWords == {S_pes, <<"k">>}
TwWordValues == {Missing, None, JStr(<<>>), JStr(S_pes)}
TwTypeValues ==
    {Missing, None, JNum(<<"5">>), JStr(<<>>), JStr(S_noun),
     JStr(<<"N", "o", "u", "n">>), JStr(<<"N", "O", "U", "N">>), JStr(S_verb),
     JStr(<<"n", "o", "u", "n", "s">>)}
TwGenderValues == {Missing, None, JStr(<<>>), JStr(<<"f">>), JStr(<<"m", "a">>)}
TwTextValues == {Missing, None, JNum(<<"5">>), JStr(S_dog)}

TwResponses ==
    {RaiseResponse, NonJsonResponse, NonObjectResponse} \cup
    {Response("object", w, t, g, tr, e) :
        w \in TwWordValues, t \in TwTypeValues, g \in TwGenderValues,
        tr \in TwTextValues, e \in {Missing, JStr(<<"x">>)}}

TwIdle == [word |-> <<>>, resp |-> RaiseResponse, returned |-> FALSE, out |-> NoOutcome]

-----------------------------------------------------------------------------
(* main.py: read_czech_words *)

RECURSIVE Contains(_, _)
Contains(list, x) ==
    IF list = <<>> THEN FALSE
    ELSE IF Head(list) = x THEN TRUE ELSE Contains(Tail(list), x)

\* faulty variant: the membership test is left out
AppendWord_NoDedup(ws, row) ==
    IF row # <<>> /\ Strip(row[1]) # <<>> THEN Append(ws, Strip(row[1])) ELSE ws

\* body of the loop over csv.reader(file): words after one row
AppendWord(ws, row) ==
    IF row # <<>> /\ Strip(row[1]) # <<>>
    THEN IF ~Contains(ws, Strip(row[1])) THEN Append(ws, Strip(row[1])) ELSE ws
    ELSE ws

\* ---- inputs of SpecReader: the rows csv.reader yields ----
RdFields ==
    {<<>>, <<" ">>, <<"a">>, <<" ", "a">>, <<"a", "\t">>, <<"b">>,
     <<" ", "b", " ">>, <<"a", " ", "b">>}
RdRows ==
    {<<>>} \cup {<<f>> : f \in RdFields}
           \cup {<<f, <<"x">>>> : f \in {<<"a">>, <<" ">>}}

SeqsUpTo(S, n) == UNION {[1..k -> S] : k \in 0..n}

RdIdle == [words |-> <<>>, readable |-> FALSE, file |-> <<>>, pos |-> 0, pc |-> "idle"]

RdInit ==
    rd \in {[words |-> <<>>, readable |-> r, file |-> f, pos |-> 0, pc |-> "open"] :
                r \in BOOLEAN, f \in SeqsUpTo(RdRows, MaxRows)}

\* open(input_file) fails: the exception is printed and re-raised
ReadOpenFails ==
    /\ rd.pc = "open" /\ ~rd.readable
    /\ rd' = [rd EXCEPT !.pc = "raised"]

\* one iteration of the loop over reader
ReadRow ==
    /\ rd.pc \in {"open", "loop"} /\ rd.readable
    /\ rd.pos < Len(rd.file)
    /\ rd' = [rd EXCEPT !.pc = "loop", !.pos = rd.pos + 1,
                        !.words = AppendWord(rd.words, rd.file[rd.pos + 1])]

\* return words
ReadReturn ==
    /\ rd.pc \in {"open", "loop"} /\ rd.readable
    /\ rd.pos = Len(rd.file)
    /\ rd' = [rd EXCEPT !.pc = "returned"]

-----------------------------------------------------------------------------
(* read_anki.py *)

\* the three characters of the quote class: double quote, single quote, backtick
DQ == "dq"
SQ == "sq"
BT == "bt"
QuoteChars == {DQ, SQ, BT}

\* re.sub of the quote character class by the empty string
RECURSIVE ReSubQuotes(_)
ReSubQuotes(s) ==
    IF s = <<>> THEN <<>>
    ELSE IF Head(s) \in QuoteChars THEN ReSubQuotes(Tail(s))
         ELSE <<Head(s)>> \o ReSubQuotes(Tail(s))

\* line.strip().split()[0]
FirstWord(line) == TakeToken(Strip(line))

\* faulty variant: the quotes are not removed
CleanedWord_KeepQuotes(first_word) == Strip(first_word)

\* re.sub(...).strip()
CleanedWord(first_word) == Strip(ReSubQuotes(first_word))

\* body of the loop over the lines of f: first_words after one line
ExtractLine(first_words, line) ==
    IF Strip(line) # <<>>
    THEN Append(first_words, CleanedWord(FirstWord(line)))
    ELSE first_words

S_result_csv == <<"r", "e", "s", "u", "l", "t", ".", "c", "s", "v">>

\* faulty variant: a second command-line argument is passed as output_file
MainOutputFile_SecondArg(argv) == IF Len(argv) >= 3 THEN argv[3] ELSE S_result_csv

\* the output_file main() calls extract_first_words with: main passes
\* input_file alone, so it is the default of the parameter
MainOutputFile(argv) == S_result_csv

\* ---- inputs of SpecExtract ----
\* lines of the input file, without their line terminator (which strip drops)
ExLines ==
    {<<>>,
     <<" ", "\t">>,
     <<" ", " ", DQ, "A", "h", "o", "j", DQ, " ", "w", "o", "r", "l", "d">>,
     <<SQ, "C", "a", "u", SQ, " ", " ">>,
     <<"a">>,
     <<"\t", "a", " ", "b">>,
     <<DQ>>,
     <<BT, "a", BT, "b">>,
     <<"a", DQ, "b", " ", "c">>}

S_prog == <<"r", "e", "a", "d", "_", "a", "n", "k", "i", ".", "p", "y">>
S_in == <<"i", "n", ".", "t", "x", "t">>
S_out == <<"o", "u", "t", ".", "c", "s", "v">>

\* sys.argv (1-based here: argv[1] is the program name)
ExArgvs == {<<S_prog>>, <<S_prog, S_in>>, <<S_prog, S_in, S_out>>}

ExIdle ==
    [pos |-> 0, pc |-> "idle", first_words |-> <<>>, argv |-> <<>>, exists |-> FALSE,
     lines |-> <<>>, output_file |-> <<>>, written |-> <<>>, status |-> 0]

ExInit ==
    ex \in {[pos |-> 0, pc |-> "main", first_words |-> <<>>, argv |-> a,
             exists |-> e, lines |-> l, output_file |-> <<>>, written |-> <<>>,
             status |-> 0] :
                a \in ExArgvs, e \in BOOLEAN, l \in SeqsUpTo(ExLines, MaxLines)}

\* main(): no input argument: usage message and exit status 1
ExUsage ==
    /\ ex.pc = "main" /\ Len(ex.argv) < 2
    /\ ex' = [ex EXCEPT !.pc = "exit", !.status = 1]

\* main(): extract_first_words(sys.argv[1])
ExCall ==
    /\ ex.pc = "main" /\ Len(ex.argv) >= 2
    /\ ex' = [ex EXCEPT !.pc = "read", !.output_file = MainOutputFile(ex.argv)]

\* open(input_file) raises FileNotFoundError: message and exit status 1
ExNotFound ==
    /\ ex.pc = "read" /\ ~ex.exists
    /\ ex' = [ex EXCEPT !.pc = "exit", !.status = 1]

\* one iteration of the loop over the lines of f
ExReadLine ==
    /\ ex.pc = "read" /\ ex.exists
    /\ ex.pos < Len(ex.lines)
    /\ ex' = [ex EXCEPT !.pos = ex.pos + 1,
                        !.first_words = ExtractLine(ex.first_words, ex.lines[ex.pos + 1])]

\* the second with block: one writer.writerow([word]) per first word, or an
\* exception (unwritable output): message and exit status 1
ExWrite ==
    /\ ex.pc = "read" /\ ex.exists
    /\ ex.pos = Len(ex.lines)
    /\ \E ok \in BOOLEAN :
         ex' = IF ok
               THEN [ex EXCEPT !.pc = "written",
                               !.written = [i \in 1..Len(ex.first_words) |->
                                               <<ex.first_words[i]>>]]
               ELSE [ex EXCEPT !.pc = "exit", !.status = 1]

-----------------------------------------------------------------------------
(* main.py: main() *)

\* the work items: distinct non-blank words, as read_czech_words returns them
Word(i) == [j \in 1..i |-> "a"]
WordList(n) == [i \in 1..n |-> Word(i)]
AllWords == {Word(i) : i \in 1..MaxWords}

Range(seq) == {seq[i] : i \in 1..Len(seq)}

MainThread == <<"main">>

\* ---- the output file: open(output_file, 'w') with the default buffering ----
\* A written row stays in the file object's buffer; the buffer goes to the
\* file when the next row no longer fits, and when the file is closed.
FileWrite(file, row) ==
    IF Len(file.buf) + 1 > BufRows
    THEN [buf |-> <<row>>, disk |-> file.disk \o file.buf]
    ELSE [buf |-> Append(file.buf, row), disk |-> file.disk]

FileClose(file) == [buf |-> <<>>, disk |-> file.disk \o file.buf]

\* the dict write_result_to_csv hands to DictWriter.writerow; src is the
\* word the dispatcher tagged the future with
Row(src, result) ==
    [word |-> result.word, word_type |-> result.word_type,
     translation |-> result.translation, example |-> result.example, src |-> src]

\* csv_writer.writeheader()
HeaderRow ==
    [word |-> JStr(<<"w", "o", "r", "d">>),
     word_type |-> JStr(<<"w", "o", "r", "d", "_", "t", "y", "p", "e">>),
     translation |-> JStr(<<"t", "r", "a", "n", "s", "l", "a", "t", "i", "o", "n">>),
     example |-> JStr(<<"e", "x", "a", "m", "p", "l", "e">>), src |-> <<>>]

\* a lone surrogate, which json.loads accepts in a string and which no
\* utf-8 stream (the output file, stdout) can encode
SURR == "surrogate"

\* whether value v, as csv or print formats it, can be encoded
Encodable(v) == ~(IsStr(v) /\ SURR \in Range(v.s))

RowEncodable(result) ==
    /\ Encodable(result.word) /\ Encodable(result.word_type)
    /\ Encodable(result.translation) /\ Encodable(result.example)

\* faulty variant: no try/except around writerow
WriteResultToCsv_Raises(file, src, result, io_ok) ==
    IF io_ok /\ RowEncodable(result)
    THEN [raised |-> FALSE, file |-> FileWrite(file, Row(src, result)), wrote |-> TRUE]
    ELSE [raised |-> TRUE, file |-> file, wrote |-> FALSE]

\* write_result_to_csv(result, csv_writer).  writerow raises, before
\* anything is written, when a field cannot be encoded and on an I/O error
\* (io_ok false).  The except branch prints result['word'] and returns; the
\* print itself raises when that word cannot be encoded.
WriteResultToCsv(file, src, result, io_ok) ==
    IF io_ok /\ RowEncodable(result)
    THEN [raised |-> FALSE, file |-> FileWrite(file, Row(src, result)), wrote |-> TRUE]
    ELSE [raised |-> ~Encodable(result.word), file |-> file, wrote |-> FALSE]

\* the body of the loop over as_completed for one future: the try block and
\* its except handler, which writes an error row for the word.  calls and
\* failures count the write_result_to_csv calls and those whose writerow
\* raised; crashed is an exception leaving the handler (and so the loop).
LoopBody(file, word, out, ok1, ok2) ==
    LET tried == ~out.raised
        w1 == WriteResultToCsv(file, word, out.result, ok1)
        inHandler == out.raised \/ w1.raised
        file1 == IF tried THEN w1.file ELSE file
        w2 == WriteResultToCsv(file1, word, ErrorResult(word, ErrorText("raise")), ok2)
    IN  [failures |-> (IF tried /\ ~w1.wrote THEN 1 ELSE 0)
                      + (IF inHandler /\ ~w2.wrote THEN 1 ELSE 0),
         file |-> IF inHandler THEN w2.file ELSE file1,
         calls |-> (IF tried THEN 1 ELSE 0) + (IF inHandler THEN 1 ELSE 0),
         crashed |-> inHandler /\ w2.raised]

\* what the service answers in the pipeline: a failure, a well-formed
\* object, or an object whose word or translation holds a lone surrogate
GoodResponse(w) ==
    Response("object", JStr(w), JStr(S_noun), JStr(<<"f">>), JStr(S_dog), JStr(<<"x">>))
BadWordResponse ==
    Response("object", JStr(<<SURR>>), JStr(S_verb), None, JStr(S_dog), JStr(<<"x">>))
BadTranslationResponse(w) ==
    Response("object", JStr(w), JStr(S_verb), None, JStr(<<SURR>>), JStr(<<"x">>))
PipeResponses(w) ==
    {RaiseResponse, GoodResponse(w), BadWordResponse, BadTranslationResponse(w)}

Alive == pcMain \notin {"idle", "killed"}
Done == {w \in AllWords : results[w] # NoOutcome}

PipeIdle ==
    /\ pcMain = "idle" /\ words = <<>> /\ max_workers = 1 /\ submitted = 0
    /\ queue = <<>> /\ running = {} /\ results = [w \in AllWords |-> NoOutcome]
    /\ consumed = <<>> /\ cur = <<>> /\ completed_count = 0
    /\ buf = <<>> /\ disk = <<>> /\ writing = {}
    /\ attempts = [w \in AllWords |-> 0]
    /\ failures = [w \in AllWords |-> 0]

Init ==
    /\ pcMain = "start"
    /\ words \in {WordList(n) : n \in 0..MaxWords}
    /\ max_workers \in 1..MaxWorkers
    /\ submitted = 0 /\ queue = <<>> /\ running = {}
    /\ results = [w \in AllWords |-> NoOutcome]
    /\ consumed = <<>> /\ cur = <<>> /\ completed_count = 0
    /\ buf = <<>> /\ disk = <<>> /\ writing = {}
    /\ attempts = [w \in AllWords |-> 0]
    /\ failures = [w \in AllWords |-> 0]
    /\ tw = TwIdle /\ rd = RdIdle /\ ex = ExIdle

\* open(output_file, 'w'), DictWriter, writeheader(), the executor is created
OpenOutput ==
    /\ pcMain = "start"
    /\ LET f == FileWrite([buf |-> buf, disk |-> disk], HeaderRow)
       IN  buf' = f.buf /\ disk' = f.disk
    /\ pcMain' = IF Len(words) = 0 THEN "collect" ELSE "submit"
    /\ UNCHANGED <<words, max_workers, submitted, queue, running, results,
                   consumed, cur, completed_count, writing, attempts, failures>>

\* executor.submit(translate_word, word, key) for the next word of the
\* dict comprehension; after the last one as_completed is entered
Submit ==
    /\ pcMain = "submit"
    /\ submitted < Len(words)
    /\ queue' = Append(queue, words[submitted + 1])
    /\ submitted' = submitted + 1
    /\ pcMain' = IF submitted + 1 = Len(words) THEN "collect" ELSE "submit"
    /\ UNCHANGED <<words, max_workers, running, results, consumed, cur,
                   completed_count, buf, disk, writing, attempts, failures>>

\* faulty variant: a thread per submitted item, whatever max_workers is
StartWorker_Unbounded(w) ==
    /\ Alive
    /\ queue # <<>> /\ w = Head(queue)
    /\ queue' = Tail(queue)
    /\ running' = running \cup {w}
    /\ UNCHANGED <<pcMain, words, max_workers, submitted, results, consumed, cur,
                   completed_count, buf, disk, writing, attempts, failures>>

\* a pool thread takes the oldest queued item and calls translate_word; the
\* pool of ThreadPoolExecutor(max_workers) has at most max_workers threads
StartWorker(w) ==
    /\ Alive
    /\ queue # <<>> /\ w = Head(queue)
    /\ Cardinality(running) < max_workers
    /\ queue' = Tail(queue)
    /\ running' = running \cup {w}
    /\ UNCHANGED <<pcMain, words, max_workers, submitted, results, consumed, cur,
                   completed_count, buf, disk, writing, attempts, failures>>

\* faulty variant: the worker writes its own row before returning
WorkerReturn_WritesRow(w, resp) ==
    /\ Alive
    /\ w \in running
    /\ results' = [results EXCEPT ![w] = TranslateWord(w, resp)]
    /\ running' = running \ {w}
    /\ writing' = writing \cup {w}
    /\ UNCHANGED <<pcMain, words, max_workers, submitted, queue, consumed, cur,
                   completed_count, buf, disk, attempts, failures>>

\* the service answers and translate_word returns: the future is completed
WorkerReturn(w, resp) ==
    /\ Alive
    /\ w \in running
    /\ results' = [results EXCEPT ![w] = TranslateWord(w, resp)]
    /\ running' = running \ {w}
    /\ UNCHANGED <<pcMain, words, max_workers, submitted, queue, consumed, cur,
                   completed_count, buf, disk, writing, attempts, failures>>

\* faulty variant: a completed future can be yielded again
Consume_Again(w) ==
    /\ pcMain = "collect"
    /\ w \in Done
    /\ consumed' = Append(consumed, w)
    /\ cur' = w
    /\ pcMain' = "write"
    /\ writing' = writing \cup {MainThread}
    /\ UNCHANGED <<words, max_workers, submitted, queue, running, results,
                   completed_count, buf, disk, attempts, failures>>

\* as_completed yields a completed future it has not yielded before;
\* word = future_to_word[future]; the loop body is entered
Consume(w) ==
    /\ pcMain = "collect"
    /\ w \in Done \ Range(consumed)
    /\ consumed' = Append(consumed, w)
    /\ cur' = w
    /\ pcMain' = "write"
    /\ writing' = writing \cup {MainThread}
    /\ UNCHANGED <<words, max_workers, submitted, queue, running, results,
                   completed_count, buf, disk, attempts, failures>>

\* the loop body for the yielded future: future.result(), the row is
\* written, completed_count += 1
WriteRow(ok1, ok2) ==
    /\ pcMain = "write"
    /\ LET b == LoopBody([buf |-> buf, disk |-> disk], cur, results[cur], ok1, ok2)
           f == IF b.crashed THEN FileClose(b.file) ELSE b.file
       IN  /\ buf' = f.buf /\ disk' = f.disk
           /\ attempts' = [attempts EXCEPT ![cur] = attempts[cur] + b.calls]
           /\ failures' = [failures EXCEPT ![cur] = failures[cur] + b.failures]
           /\ pcMain' = IF b.crashed THEN "crashed" ELSE "collect"
           /\ completed_count' = IF b.crashed THEN completed_count ELSE completed_count + 1
    /\ writing' = writing \ {MainThread}
    /\ UNCHANGED <<words, max_workers, submitted, queue, running, results,
                   consumed, cur>>

\* as_completed is exhausted: both with blocks exit, the file is closed
Close ==
    /\ pcMain = "collect"
    /\ Range(consumed) = Range(words)
    /\ LET f == FileClose([buf |-> buf, disk |-> disk])
       IN  buf' = f.buf /\ disk' = f.disk
    /\ pcMain' = "done"
    /\ UNCHANGED <<words, max_workers, submitted, queue, running, results,
                   consumed, cur, completed_count, writing, attempts, failures>>

\* the process is terminated: its threads stop and what the file object
\* buffered is lost
Interrupt ==
    /\ pcMain \in {"submit", "collect", "write"}
    /\ pcMain' = "killed"
    /\ buf' = <<>>
    /\ running' = {} /\ writing' = {}
    /\ UNCHANGED <<words, max_workers, submitted, queue, results, consumed, cur,
                   completed_count, disk, attempts, failures>>

Next ==
    \/ (OpenOutput /\ UNCHANGED <<tw, rd, ex>>)
    \/ (Submit /\ UNCHANGED <<tw, rd, ex>>)
    \/ (\E w \in AllWords : StartWorker(w) /\ UNCHANGED <<tw, rd, ex>>)
    \/ (\E w \in AllWords : \E resp \in PipeResponses(w) :
            WorkerReturn(w, resp) /\ UNCHANGED <<tw, rd, ex>>)
    \/ (\E w \in AllWords : Consume(w) /\ UNCHANGED <<tw, rd, ex>>)
    \/ (\E ok1, ok2 \in BOOLEAN : WriteRow(ok1, ok2) /\ UNCHANGED <<tw, rd, ex>>)
    \/ (Close /\ UNCHANGED <<tw, rd, ex>>)
    \/ (Interrupt /\ UNCHANGED <<tw, rd, ex>>)

Spec == Init /\ [][Next]_vars

-----------------------------------------------------------------------------
(* translate_word, read_czech_words and read_anki.main as functions *)

InitTranslate ==
    /\ PipeIdle /\ rd = RdIdle /\ ex = ExIdle
    /\ tw \in {[word |-> w, resp |-> r, returned |-> FALSE, out |-> NoOutcome] :
                  w \in TwWords, r \in TwResponses}

\* one call of translate_word
CallTranslateWord ==
    /\ ~tw.returned
    /\ tw' = [tw EXCEPT !.returned = TRUE, !.out = TranslateWord(tw.word, tw.resp)]
    /\ UNCHANGED <<pipeVars, rd, ex>>

SpecTranslate == InitTranslate /\ [][CallTranslateWord]_vars

InitReader == PipeIdle /\ tw = TwIdle /\ ex = ExIdle /\ RdInit

NextReader ==
    \/ (ReadOpenFails /\ UNCHANGED <<pipeVars, tw, ex>>)
    \/ (ReadRow /\ UNCHANGED <<pipeVars, tw, ex>>)
    \/ (ReadReturn /\ UNCHANGED <<pipeVars, tw, ex>>)

SpecReader == InitReader /\ [][NextReader]_vars

InitExtract == PipeIdle /\ tw = TwIdle /\ rd = RdIdle /\ ExInit

NextExtract ==
    \/ (ExUsage /\ UNCHANGED <<pipeVars, tw, rd>>)
    \/ (ExCall /\ UNCHANGED <<pipeVars, tw, rd>>)
    \/ (ExNotFound /\ UNCHANGED <<pipeVars, tw, rd>>)
    \/ (ExReadLine /\ UNCHANGED <<pipeVars, tw, rd>>)
    \/ (ExWrite /\ UNCHANGED <<pipeVars, tw, rd>>)

SpecExtract == InitExtract /\ [][NextExtract]_vars

-----------------------------------------------------------------------------
(* Properties *)

RowCount(file, w) == Cardinality({i \in 1..Len(file) : file[i].src = w})

\* C1 as stated: when the dispatch loop has finished and the file is closed,
\* the output holds the header and exactly one row for every input word.
C1_ExactlyNRows ==
    pcMain = "done" =>
        /\ Len(disk) = 1 + Len(words)
        /\ \A w \in Range(words) : RowCount(disk, w) = 1

\* C1 as amended: no word ever has two rows; when the loop has finished
\* every word was handed to write_result_to_csv and has exactly one row,
\* except that a word has no row when the last write for it raised in
\* writerow: the file is the header and one row per word that has one, and
\* N rows when no write failed.
C1_AtMostOneRowPerWord ==
    /\ \A w \in AllWords : RowCount(disk \o buf, w) <= 1
    /\ pcMain = "done" =>
        /\ \A w \in Range(words) :
              /\ attempts[w] >= 1
              /\ RowCount(disk, w) = attempts[w] - failures[w]
              /\ failures[w] = 0 => RowCount(disk, w) = 1
        /\ Len(disk) = 1 + Cardinality({w \in Range(words) : RowCount(disk, w) = 1})
        /\ disk[1] = HeaderRow

\* three words, two workers, completions consumed out of input order, one
\* translation failed, no write failed: header + 3 rows
C1_Witness ==
    /\ pcMain = "done" /\ Len(words) = 3 /\ max_workers = 2
    /\ consumed # words
    /\ \A w \in AllWords : failures[w] = 0
    /\ \E w \in Range(words) : results[w].result.word_type = JStr(S_error)
    /\ Len(disk) = 4

\* C2: after an interruption the persisted file is the header followed by
\* one row per completion the loop has consumed.
C2_PersistedRows ==
    pcMain = "killed" =>
        /\ Len(disk) = 1 + completed_count
        /\ disk[1] = HeaderRow

\* C3: translate_word returns without raising, with a non-empty string word
\* and string word_type, translation and example.
C3_AlwaysStrings ==
    tw.returned =>
        /\ ~tw.out.raised
        /\ IsStr(tw.out.result.word) /\ tw.out.result.word.s # <<>>
        /\ IsStr(tw.out.result.word_type)
        /\ IsStr(tw.out.result.translation)
        /\ IsStr(tw.out.result.example)

\* C4: at most max_workers translate_word calls execute at the same time.
C4_BoundedConcurrency == Cardinality(running) <= max_workers

\* the pool is saturated while more items wait in the queue
C4_Witness ==
    /\ Len(words) > max_workers
    /\ Cardinality(running) = max_workers
    /\ queue # <<>>

\* ---- read_czech_words, stated without the operators of the model ----
SubSeqs(f) == {SubSeq(f, i, j) : i \in 1..(Len(f) + 1), j \in 0..Len(f)}

\* x is f without its leading and trailing whitespace
IsTrimOf(x, f) ==
    \E i \in 1..(Len(f) + 1), j \in 0..Len(f) :
        /\ x = SubSeq(f, i, j)
        /\ \A k \in 1..(i - 1) : IsSpace(f[k])
        /\ \A k \in (j + 1)..Len(f) : IsSpace(f[k])
        /\ x # <<>> => ~IsSpace(x[1]) /\ ~IsSpace(x[Len(x)])

\* rows of the file whose trimmed first column is x
RowsWith(file, x) ==
    {k \in 1..Len(file) : file[k] # <<>> /\ IsTrimOf(x, file[k][1])}

FirstRowWith(file, x) ==
    CHOOSE k \in RowsWith(file, x) : \A m \in RowsWith(file, x) : k <= m

\* C5: the returned list has no duplicates, holds exactly the trimmed
\* non-blank first-column values, and is ordered by first occurrence.
C5_DistinctInFirstOccurrenceOrder ==
    rd.pc = "returned" =>
        /\ \A i, j \in 1..Len(rd.words) : i # j => rd.words[i] # rd.words[j]
        /\ \A i \in 1..Len(rd.words) :
              rd.words[i] # <<>> /\ RowsWith(rd.file, rd.words[i]) # {}
        /\ \A k \in 1..Len(rd.file) :
              rd.file[k] # <<>> =>
                  \A x \in SubSeqs(rd.file[k][1]) :
                      (x # <<>> /\ IsTrimOf(x, rd.file[k][1])) => x \in Range(rd.words)
        /\ \A i, j \in 1..Len(rd.words) :
              i < j => FirstRowWith(rd.file, rd.words[i]) < FirstRowWith(rd.file, rd.words[j])

\* rows " a", "b", "a<TAB>" give [a, b]
C5_Witness ==
    /\ rd.pc = "returned"
    /\ rd.file = << <<<<" ", "a">>>>, <<<<"b">>>>, <<<<"a", "\t">>>> >>
    /\ rd.words = << <<"a">>, <<"b">> >>

\* C6: for a parsed response whose word_type is a string (the empty string
\* when the key is absent), the output word_type is that string followed by
\* " (<gender>)" exactly when the type is "noun" in any letter case and a
\* gender (a non-empty string) is given, and is the string unchanged
\* otherwise.
IsNounAnyCase(t) ==
    /\ Len(t) = 4
    /\ t[1] \in {"n", "N"} /\ t[2] \in {"o", "O"}
    /\ t[3] \in {"u", "U"} /\ t[4] \in {"n", "N"}

GenderGiven(g) == IsStr(g) /\ g.s # <<>>

C6_GenderSuffixNounOnly ==
    (/\ tw.returned /\ tw.resp.kind = "object"
     /\ (IsStr(tw.resp.word_type) \/ tw.resp.word_type = Missing)) =>
        LET t == tw.resp.word_type.s
            g == tw.resp.gender
            got == tw.out.result.word_type
        IN  /\ IsStr(got)
            /\ (IsNounAnyCase(t) /\ GenderGiven(g)) =>
                   got.s = t \o <<" ", "(">> \o g.s \o <<")">>
            /\ ~(IsNounAnyCase(t) /\ GenderGiven(g)) => got.s = t

\* "Noun" with gender "f" gives "Noun (f)"
C6_Witness ==
    /\ tw.returned /\ tw.resp.kind = "object"
    /\ tw.resp.word_type = JStr(<<"N", "o", "u", "n">>)
    /\ tw.resp.gender = JStr(<<"f">>)
    /\ tw.out.result.word_type = JStr(<<"N", "o", "u", "n", " ", "(", "f", ")">>)

\* C7: a failed row write never takes the run out of the dispatch loop:
\* every consumed completion is handed to the sink once and, unless its
\* own write failed, has its row; and the run can always go on to the end.
Processed(w) == w \in Range(consumed) /\ ~(pcMain = "write" /\ cur = w)

C7_WriteFailureContained ==
    /\ pcMain # "crashed"
    /\ pcMain # "killed" =>
          \A w \in AllWords :
              Processed(w) =>
                  /\ attempts[w] >= 1
                  /\ failures[w] = 0 => RowCount(disk \o buf, w) = 1
    /\ pcMain \in {"done", "killed"} \/ ENABLED Next

\* a row write failed and the row was dropped, a later completion was
\* consumed and its row written, and the run reached the end
C7_Witness ==
    /\ pcMain = "done"
    /\ \E i, j \in 1..Len(consumed) :
          /\ i < j
          /\ failures[consumed[i]] > 0
          /\ RowCount(disk, consumed[i]) = 0
          /\ failures[consumed[j]] = 0
          /\ RowCount(disk, consumed[j]) = 1

\* ---- read_anki, stated without the operators of the model ----
NonBlank(l) == \E k \in 1..Len(l) : ~IsSpace(l[k])

\* tok is the first maximal run of non-whitespace characters of l
IsFirstToken(tok, l) ==
    \E i, j \in 1..Len(l) :
        /\ i <= j
        /\ tok = SubSeq(l, i, j)
        /\ \A k \in 1..(i - 1) : IsSpace(l[k])
        /\ \A k \in i..j : ~IsSpace(l[k])
        /\ j = Len(l) \/ IsSpace(l[j + 1])

NotQuote(c) == c \notin QuoteChars

\* C8: the output has one single-column row per non-blank line, in input
\* order and without a header: the first token less its quote characters.
C8_OneRowPerNonBlankLine ==
    ex.pc = "written" =>
        LET nb == SelectSeq(ex.lines, NonBlank)
        IN  /\ Len(ex.written) = Len(nb)
            /\ \A n \in 1..Len(nb) :
                  /\ Len(ex.written[n]) = 1
                  /\ \E tok \in SubSeqs(nb[n]) :
                        /\ IsFirstToken(tok, nb[n])
                        /\ ex.written[n][1] = SelectSeq(tok, NotQuote)

\* the example of the design: two quoted lines and an empty one
C8_Witness ==
    /\ ex.pc = "written"
    /\ ex.lines =
          << <<" ", " ", DQ, "A", "h", "o", "j", DQ, " ", "w", "o", "r", "l", "d">>,
             <<SQ, "C", "a", "u", SQ, " ", " ">>,
             <<>> >>
    /\ ex.written = << <<<<"A", "h", "o", "j">>>>, <<<<"C", "a", "u">>>> >>

\* C9 as stated: a second argument, when given, is the output path, and
\* result.csv is used only without one.
C9_SecondArgIsOutput ==
    ex.pc = "written" =>
        ex.output_file = (IF Len(ex.argv) >= 3 THEN ex.argv[3] ELSE S_result_csv)

\* C9 as amended: main passes only the input path, so the rows are written
\* to result.csv whether or not a second argument is given.
C9_AlwaysDefaultOutput ==
    ex.pc \in {"read", "written"} =>
        /\ Len(ex.argv) >= 2
        /\ ex.output_file = S_result_csv

\* a run with a second argument that wrote result.csv
C9_Witness ==
    /\ ex.pc = "written"
    /\ Len(ex.argv) = 3 /\ ex.argv[3] = S_out
    /\ ex.output_file = S_result_csv
    /\ ex.written # <<>>

\* C10: at most one row write is in progress, and only the orchestrating
\* thread, inside its loop over the completions, ever writes.
C10_SerializedWrites ==
    /\ writing \subseteq {MainThread}
    /\ Cardinality(writing) <= 1
    /\ writing # {} => pcMain = "write"

\* the orchestrating thread is writing a row while a worker is translating
C10_Witness ==
    /\ writing = {MainThread}
    /\ pcMain = "write"
    /\ running # {}

====
